---- MODULE Spec2Model ----
(***************************************************************************)
(* Model of the varinterval middleware (middleware/varinterval).           *)
(*                                                                         *)
(* Durations are counted in whole seconds (time.Second is the unit), and   *)
(* kept well inside the int64 range of time.Duration.  A float32 is either *)
(* NaN or a number num/ProbDen; the probability p = float32(v) / (1<<24)   *)
(* is exact for 0 <= v < 2^24 and is kept as the numerator v.              *)
(***************************************************************************)
EXTENDS Integers, FiniteSets, Sequences, TLC

VARIABLES
    built,      \* the last call of New: [called, cfg, hook, err]
    last,       \* the last handler call on the hook, as the pipeline saw it
    first,      \* the first announce evaluated on the current hook
    calls       \* the concurrent calls in flight on the hook (SpecConc)

vars == <<built, last, first, calls>>

----------------------------------------------------------------------------
(* Bounds of the model *)

ProbDen == 4          \* float32 probabilities are multiples of 1/ProbDen
MaxDelta == 3         \* MaxIncreaseDelta ranges over -1..MaxDelta
MaxInfoHash == 4      \* info hashes are InfoHashStep * (0..MaxInfoHash)
MaxPeerID == 1        \* peer ids are 0..MaxPeerID
SeedBits == 26        \* width of one seed word of the random stream

(* Program constants *)

ProbBits == 24        \* random.Intn(s0, s1, 1<<24);  p = float32(v) / (1 << 24)

ProbRange == 2 ^ ProbBits
SeedMod == 2 ^ SeedBits
InfoHashStep == 2 ^ (ProbBits - 3)

----------------------------------------------------------------------------
(* Values *)

NaN == [kind |-> "nan", num |-> 0]

Float32s == {NaN} \cup {[kind |-> "num", num |-> n] : n \in -1 .. ProbDen + 1}

F32(n) == [kind |-> "num", num |-> n]

\* x <= 0, x > 1, x == 1 on float32: every comparison with NaN is false
F32LeZero(x) == x.kind = "num" /\ x.num <= 0
F32GtOne(x) == x.kind = "num" /\ x.num > ProbDen
F32EqOne(x) == x.kind = "num" /\ x.num = ProbDen
\* v / 2^24 < x
F32Less(v, x) == x.kind = "num" /\ v * ProbDen < x.num * ProbRange

Configs ==
    [ModifyResponseProbability : Float32s,
     MaxIncreaseDelta : -1 .. MaxDelta,
     ModifyMinInterval : BOOLEAN]

ZeroConfig ==
    [ModifyResponseProbability |-> F32(0),
     MaxIncreaseDelta |-> 0,
     ModifyMinInterval |-> FALSE]

Errors == {"nil", "ErrInvalidModifyResponseProbability", "ErrInvalidMaxIncreaseDelta"}

NilHook == [isNil |-> TRUE, cfg |-> ZeroConfig, mu |-> "unlocked"]

Requests == [infoHash : {InfoHashStep * i : i \in 0 .. MaxInfoHash}, peerID : 0 .. MaxPeerID]

ResponseA == [Interval |-> 1800, MinInterval |-> 900]
ResponseB == [Interval |-> 45, MinInterval |-> 30]
Responses == {ResponseA, ResponseB}

Contexts == {"ctxA", "ctxB"}

ScrapeRequests == {[infoHashes |-> <<0>>], [infoHashes |-> <<0, InfoHashStep>>]}
ScrapeResponses == {[files |-> <<>>], [files |-> <<[complete |-> 1, incomplete |-> 2]>>]}
ApiRequests == {[path |-> "stats"], [path |-> "peers"]}
ApiResponses == {[body |-> ""], [body |-> "ok"]}

----------------------------------------------------------------------------
(* middleware/pkg/random: the entropy derivation and the bounded draw *)

DeriveEntropyFromRequest(req) ==
    [s0 |-> req.infoHash % SeedMod, s1 |-> req.peerID % SeedMod]

GenerateAndAdvance(s0, s1) ==
    [v |-> (s0 + s1) % SeedMod,
     s0 |-> s1,
     s1 |-> (5 * s0 + s1 + 1) % SeedMod]

Intn(s0, s1, n) ==
    LET g == GenerateAndAdvance(s0, s1)
    IN  [v |-> g.v % n, s0 |-> g.s0, s1 |-> g.s1]

----------------------------------------------------------------------------
(* checkConfig and New *)

checkConfig_DeltaFirst(cfg) ==
    IF cfg.MaxIncreaseDelta <= 0
    THEN "ErrInvalidMaxIncreaseDelta"
    ELSE IF F32LeZero(cfg.ModifyResponseProbability) \/ F32GtOne(cfg.ModifyResponseProbability)
         THEN "ErrInvalidModifyResponseProbability"
         ELSE "nil"

checkConfig(cfg) ==
    IF F32LeZero(cfg.ModifyResponseProbability) \/ F32GtOne(cfg.ModifyResponseProbability)
    THEN "ErrInvalidModifyResponseProbability"
    ELSE IF cfg.MaxIncreaseDelta <= 0
         THEN "ErrInvalidMaxIncreaseDelta"
         ELSE "nil"

New(cfg) ==
    LET err == checkConfig(cfg)
    IN  IF err # "nil"
        THEN [hook |-> NilHook, err |-> err]
        ELSE [hook |-> [isNil |-> FALSE, cfg |-> cfg, mu |-> "unlocked"], err |-> "nil"]

----------------------------------------------------------------------------
(* hook.HandleAnnounce, line by line *)

\* s0, s1 := DeriveEntropyFromRequest(req);  v, s0, s1 := Intn(s0, s1, 1<<24);
\* p := float32(v) / (1 << 24)
ProbabilityDraw(req) ==
    LET e == DeriveEntropyFromRequest(req)
        d == Intn(e.s0, e.s1, ProbRange)
    IN  [p |-> d.v, s0 |-> d.s0, s1 |-> d.s1]

ShouldModify_LessOrEqual(cfg, p) ==
    \/ F32EqOne(cfg.ModifyResponseProbability)
    \/ F32Less(p, cfg.ModifyResponseProbability)
    \/ (cfg.ModifyResponseProbability.kind = "num"
        /\ p * ProbDen = cfg.ModifyResponseProbability.num * ProbRange)

\* h.cfg.ModifyResponseProbability == 1 || p < h.cfg.ModifyResponseProbability
ShouldModify(cfg, p) ==
    \/ F32EqOne(cfg.ModifyResponseProbability)
    \/ F32Less(p, cfg.ModifyResponseProbability)

IncreaseDelta_NoPlusOne(cfg, s0, s1) ==
    Intn(s0, s1, cfg.MaxIncreaseDelta).v

\* v, _, _ = Intn(s0, s1, h.cfg.MaxIncreaseDelta);  addSeconds := (v+1) * time.Second
IncreaseDelta(cfg, s0, s1) ==
    Intn(s0, s1, cfg.MaxIncreaseDelta).v + 1

AddInterval(resp, addSeconds) ==
    [resp EXCEPT !.Interval = @ + addSeconds]

AddMinInterval_Always(cfg, resp, addSeconds) ==
    [resp EXCEPT !.MinInterval = @ + addSeconds]

\* if h.cfg.ModifyMinInterval { resp.MinInterval += addSeconds }
AddMinInterval(cfg, resp, addSeconds) ==
    IF cfg.ModifyMinInterval
    THEN [resp EXCEPT !.MinInterval = @ + addSeconds]
    ELSE resp

HandleAnnounce_FreshSeeds(h, ctx, req, resp) ==
    LET e == DeriveEntropyFromRequest(req)
        d == ProbabilityDraw(req)
    IN  IF ShouldModify(h.cfg, d.p)
        THEN LET addSeconds == IncreaseDelta(h.cfg, e.s0, e.s1)
             IN  [ctx |-> ctx, err |-> "nil", req |-> req,
                  resp |-> AddMinInterval(h.cfg, AddInterval(resp, addSeconds), addSeconds)]
        ELSE [ctx |-> ctx, err |-> "nil", req |-> req, resp |-> resp]

HandleAnnounce_SeedFromResponse(h, ctx, req, resp) ==
    LET d == ProbabilityDraw(req)
    IN  IF ShouldModify(h.cfg, d.p)
        THEN LET addSeconds == IncreaseDelta(h.cfg, d.s0, (d.s1 + resp.Interval) % SeedMod)
             IN  [ctx |-> ctx, err |-> "nil", req |-> req,
                  resp |-> AddMinInterval(h.cfg, AddInterval(resp, addSeconds), addSeconds)]
        ELSE [ctx |-> ctx, err |-> "nil", req |-> req, resp |-> resp]

HandleAnnounce_ErrorWhenUnmodified(h, ctx, req, resp) ==
    LET d == ProbabilityDraw(req)
    IN  IF ShouldModify(h.cfg, d.p)
        THEN LET addSeconds == IncreaseDelta(h.cfg, d.s0, d.s1)
             IN  [ctx |-> ctx, err |-> "nil", req |-> req,
                  resp |-> AddMinInterval(h.cfg, AddInterval(resp, addSeconds), addSeconds)]
        ELSE [ctx |-> ctx, err |-> "ErrNotModified", req |-> req, resp |-> resp]

HandleAnnounce(h, ctx, req, resp) ==
    LET d == ProbabilityDraw(req)
    IN  IF ShouldModify(h.cfg, d.p)
        THEN LET addSeconds == IncreaseDelta(h.cfg, d.s0, d.s1)
             IN  [ctx |-> ctx, err |-> "nil", req |-> req,
                  resp |-> AddMinInterval(h.cfg, AddInterval(resp, addSeconds), addSeconds)]
        ELSE [ctx |-> ctx, err |-> "nil", req |-> req, resp |-> resp]

HandleScrape_ClearsFiles(h, ctx, req, resp) ==
    [ctx |-> ctx, err |-> "nil", req |-> req, resp |-> [files |-> <<>>]]

\* Scrapes are not altered.
HandleScrape(h, ctx, req, resp) ==
    [ctx |-> ctx, err |-> "nil", req |-> req, resp |-> resp]

\* Apis are not altered.
HandleApi(h, ctx, req, resp) ==
    [ctx |-> ctx, err |-> "nil", req |-> req, resp |-> resp]

----------------------------------------------------------------------------
(* The hook driven by one caller: every action is one whole call *)

CallIds == {"c1", "c2"}

NoCall ==
    [op |-> "none", req |-> <<>>, reqAfter |-> <<>>, before |-> <<>>, after |-> <<>>,
     ctxIn |-> "ctxA", ctxOut |-> "ctxA", err |-> "nil"]

NoFirst == [set |-> FALSE, req |-> <<>>, before |-> <<>>, dInterval |-> 0, dMinInterval |-> 0]

IdleCall ==
    [pc |-> "idle", op |-> "none", ctx |-> "ctxA", req |-> <<>>, resp0 |-> <<>>,
     resp |-> <<>>, p |-> 0, s0 |-> 0, s1 |-> 0, addSeconds |-> 0,
     retCtx |-> "ctxA", retErr |-> "nil"]

Init ==
    /\ built = [called |-> FALSE, cfg |-> ZeroConfig, hook |-> NilHook, err |-> "nil"]
    /\ last = NoCall
    /\ first = NoFirst
    /\ calls = [c \in CallIds |-> IdleCall]

\* The hook is built once at startup; construction is retried until it succeeds.
NewCall ==
    /\ built.hook.isNil
    /\ \E cfg \in Configs :
        LET r == New(cfg)
        IN  /\ built' = [called |-> TRUE, cfg |-> cfg, hook |-> r.hook, err |-> r.err]
            /\ last' = NoCall
            /\ first' = NoFirst
            /\ UNCHANGED calls

Announce(ctx, req, resp) ==
    LET r == HandleAnnounce(built.hook, ctx, req, resp)
    IN  last' = [op |-> "announce", req |-> req, reqAfter |-> r.req,
                 before |-> resp, after |-> r.resp,
                 ctxIn |-> ctx, ctxOut |-> r.ctx, err |-> r.err]

AnnounceCall ==
    /\ ~built.hook.isNil
    /\ \E ctx \in Contexts, req \in Requests, resp \in Responses :
        Announce(ctx, req, resp)
    /\ UNCHANGED <<built, first, calls>>

ScrapeCall ==
    /\ ~built.hook.isNil
    /\ \E ctx \in Contexts, req \in ScrapeRequests, resp \in ScrapeResponses :
        LET r == HandleScrape(built.hook, ctx, req, resp)
        IN  last' = [op |-> "scrape", req |-> req, reqAfter |-> r.req,
                     before |-> resp, after |-> r.resp,
                     ctxIn |-> ctx, ctxOut |-> r.ctx, err |-> r.err]
    /\ UNCHANGED <<built, first, calls>>

ApiCall ==
    /\ ~built.hook.isNil
    /\ \E ctx \in Contexts, req \in ApiRequests, resp \in ApiResponses :
        LET r == HandleApi(built.hook, ctx, req, resp)
        IN  last' = [op |-> "api", req |-> req, reqAfter |-> r.req,
                     before |-> resp, after |-> r.resp,
                     ctxIn |-> ctx, ctxOut |-> r.ctx, err |-> r.err]
    /\ UNCHANGED <<built, first, calls>>

Next == NewCall \/ AnnounceCall \/ ScrapeCall \/ ApiCall

Spec == Init /\ [][Next]_vars

----------------------------------------------------------------------------
(* Repeated announces on one built hook, the first evaluation remembered *)

InitBuilt ==
    /\ \E cfg \in Configs :
        /\ New(cfg).err = "nil"
        /\ built = [called |-> TRUE, cfg |-> cfg, hook |-> New(cfg).hook, err |-> "nil"]
    /\ last = NoCall
    /\ first = NoFirst
    /\ calls = [c \in CallIds |-> IdleCall]

FirstAnnounce ==
    /\ ~first.set
    /\ \E req \in Requests, resp \in Responses :
        /\ Announce("ctxA", req, resp)
        /\ first' = [set |-> TRUE, req |-> req, before |-> resp,
                     dInterval |-> last'.after.Interval - resp.Interval,
                     dMinInterval |-> last'.after.MinInterval - resp.MinInterval]
    /\ UNCHANGED <<built, calls>>

LaterAnnounce ==
    /\ first.set
    /\ \E req \in Requests, resp \in Responses :
        Announce("ctxA", req, resp)
    /\ UNCHANGED <<built, first, calls>>

NextDet == FirstAnnounce \/ LaterAnnounce

SpecDet == InitBuilt /\ [][NextDet]_vars

----------------------------------------------------------------------------
(* Concurrent calls on one built hook: one action per shared read or write *)

\* the response the pipeline hands to each call
ResponseOf(c) ==
    IF c = "c1" THEN ResponseA ELSE ResponseB

\* lines 68-71: the locals s0, s1, v, p of one call
StartAnnounce(c) ==
    /\ calls[c].pc = "idle"
    /\ \E req \in Requests :
        LET d == ProbabilityDraw(req)
        IN  calls' = [calls EXCEPT ![c] =
                [@ EXCEPT !.pc = "decide", !.op = "announce", !.req = req,
                          !.resp0 = ResponseOf(c), !.resp = ResponseOf(c),
                          !.p = d.p, !.s0 = d.s0, !.s1 = d.s1]]
    /\ UNCHANGED <<built, last, first>>

\* line 72: reads h.cfg.ModifyResponseProbability
Decide(c) ==
    /\ calls[c].pc = "decide"
    /\ calls' = [calls EXCEPT ![c].pc =
            IF ShouldModify(built.hook.cfg, calls[c].p) THEN "delta" ELSE "return"]
    /\ UNCHANGED <<built, last, first>>

DrawDelta_SharedDelta(c) ==
    /\ calls[c].pc = "delta"
    /\ calls' = [d \in CallIds |->
            IF d = c
            THEN [calls[d] EXCEPT !.pc = "addInterval",
                      !.addSeconds = IncreaseDelta(built.hook.cfg, calls[c].s0, calls[c].s1)]
            ELSE [calls[d] EXCEPT
                      !.addSeconds = IncreaseDelta(built.hook.cfg, calls[c].s0, calls[c].s1)]]
    /\ UNCHANGED <<built, last, first>>

\* lines 74-75: reads h.cfg.MaxIncreaseDelta
DrawDelta(c) ==
    /\ calls[c].pc = "delta"
    /\ calls' = [calls EXCEPT ![c] =
            [@ EXCEPT !.pc = "addInterval",
                      !.addSeconds = IncreaseDelta(built.hook.cfg, calls[c].s0, calls[c].s1)]]
    /\ UNCHANGED <<built, last, first>>

\* line 77: resp.Interval += addSeconds
AddIntervalStep(c) ==
    /\ calls[c].pc = "addInterval"
    /\ calls' = [calls EXCEPT ![c] =
            [@ EXCEPT !.pc = "addMinInterval",
                      !.resp = AddInterval(calls[c].resp, calls[c].addSeconds)]]
    /\ UNCHANGED <<built, last, first>>

\* lines 79-81: reads h.cfg.ModifyMinInterval
AddMinIntervalStep(c) ==
    /\ calls[c].pc = "addMinInterval"
    /\ calls' = [calls EXCEPT ![c] =
            [@ EXCEPT !.pc = "return",
                      !.resp = AddMinInterval(built.hook.cfg, calls[c].resp, calls[c].addSeconds)]]
    /\ UNCHANGED <<built, last, first>>

\* lines 83 and 86: return ctx, nil
Return(c) ==
    /\ calls[c].pc = "return"
    /\ calls' = [calls EXCEPT ![c] =
            [@ EXCEPT !.pc = "done", !.retCtx = calls[c].ctx, !.retErr = "nil"]]
    /\ UNCHANGED <<built, last, first>>

ScrapeStep(c) ==
    /\ calls[c].pc = "idle"
    /\ \E req \in ScrapeRequests, resp \in ScrapeResponses :
        LET r == HandleScrape(built.hook, calls[c].ctx, req, resp)
        IN  calls' = [calls EXCEPT ![c] =
                [@ EXCEPT !.pc = "done", !.op = "scrape", !.req = req,
                          !.resp0 = resp, !.resp = r.resp,
                          !.retCtx = r.ctx, !.retErr = r.err]]
    /\ UNCHANGED <<built, last, first>>

ApiStep(c) ==
    /\ calls[c].pc = "idle"
    /\ \E req \in ApiRequests, resp \in ApiResponses :
        LET r == HandleApi(built.hook, calls[c].ctx, req, resp)
        IN  calls' = [calls EXCEPT ![c] =
                [@ EXCEPT !.pc = "done", !.op = "api", !.req = req,
                          !.resp0 = resp, !.resp = r.resp,
                          !.retCtx = r.ctx, !.retErr = r.err]]
    /\ UNCHANGED <<built, last, first>>

\* the next step of a call that has entered HandleAnnounce
AnnounceStep(c) ==
    \/ Decide(c)
    \/ DrawDelta(c)
    \/ AddIntervalStep(c)
    \/ AddMinIntervalStep(c)
    \/ Return(c)

NextConc ==
    \E c \in CallIds :
        \/ StartAnnounce(c)
        \/ AnnounceStep(c)
        \/ ScrapeStep(c)
        \/ ApiStep(c)

SpecConc == InitBuilt /\ [][NextConc]_vars

----------------------------------------------------------------------------
(* Properties *)

\* the probability lies in (0, 1]
ProbabilityInRange(x) == x.kind = "num" /\ 0 < x.num /\ x.num <= ProbDen

ProbabilityRejected(x) == F32LeZero(x) \/ F32GtOne(x)

\* what the last announce added to each field
LastDelta == last.after.Interval - last.before.Interval
LastMinDelta == last.after.MinInterval - last.before.MinInterval

\* the first draw of the last announce's request, v in p = v / 2^24
LastFirstDraw ==
    LET e == DeriveEntropyFromRequest(last.req)
    IN  Intn(e.s0, e.s1, ProbRange)

\* the decision of section 4.3 step 3, on the configuration's fields
LastDecision ==
    LET x == built.hook.cfg.ModifyResponseProbability
    IN  /\ x.kind = "num"
        /\ \/ x.num = ProbDen
           \/ LastFirstDraw.v * ProbDen < x.num * ProbRange

\* C1 as stated: checkConfig returns ErrInvalidModifyResponseProbability whenever
\* the probability is <= 0 or > 1, ErrInvalidMaxIncreaseDelta whenever
\* MaxIncreaseDelta <= 0 (also when both fields are invalid), and nil whenever
\* the probability is in (0, 1] and MaxIncreaseDelta >= 1.
C1_AsStated ==
    built.called =>
        /\ ProbabilityRejected(built.cfg.ModifyResponseProbability)
            => built.err = "ErrInvalidModifyResponseProbability"
        /\ built.cfg.MaxIncreaseDelta <= 0
            => built.err = "ErrInvalidMaxIncreaseDelta"
        /\ (ProbabilityInRange(built.cfg.ModifyResponseProbability)
            /\ built.cfg.MaxIncreaseDelta >= 1)
            => built.err = "nil"

\* C1 amended: checkConfig returns ErrInvalidModifyResponseProbability whenever
\* the probability is <= 0 or > 1 (also when MaxIncreaseDelta is invalid too),
\* ErrInvalidMaxIncreaseDelta whenever MaxIncreaseDelta <= 0 and the probability
\* check did not fail, and nil whenever the probability is in (0, 1] and
\* MaxIncreaseDelta >= 1, for either value of ModifyMinInterval.
C1_ProbabilityErrorFirst ==
    built.called =>
        /\ ProbabilityRejected(built.cfg.ModifyResponseProbability)
            => built.err = "ErrInvalidModifyResponseProbability"
        /\ (~ProbabilityRejected(built.cfg.ModifyResponseProbability)
            /\ built.cfg.MaxIncreaseDelta <= 0)
            => built.err = "ErrInvalidMaxIncreaseDelta"
        /\ (ProbabilityInRange(built.cfg.ModifyResponseProbability)
            /\ built.cfg.MaxIncreaseDelta >= 1)
            => built.err = "nil"

\* both fields invalid, and the probability error is the one returned
C1_BothInvalid ==
    /\ built.called
    /\ ProbabilityRejected(built.cfg.ModifyResponseProbability)
    /\ built.cfg.MaxIncreaseDelta <= 0
    /\ built.cfg.ModifyMinInterval
    /\ built.err = "ErrInvalidModifyResponseProbability"

\* C2: New returns a hook exactly when validation succeeds; on failure no hook and
\* exactly the validation error, on success a nil error and a hook holding cfg;
\* hence every hook that exists has a probability in (0, 1] and
\* MaxIncreaseDelta >= 1.
C2_HookOnlyFromValidConfig ==
    built.called =>
        /\ ~built.hook.isNil <=> checkConfig(built.cfg) = "nil"
        /\ built.hook.isNil => built.err = checkConfig(built.cfg) /\ built.err # "nil"
        /\ ~built.hook.isNil => built.err = "nil" /\ built.hook.cfg = built.cfg
        /\ ~built.hook.isNil =>
            /\ ProbabilityInRange(built.hook.cfg.ModifyResponseProbability)
            /\ built.hook.cfg.MaxIncreaseDelta >= 1

\* C3: every announce whose response the hook modifies has its Interval
\* increased by d seconds with 1 <= d <= MaxIncreaseDelta.
C3_DeltaBounds ==
    (last.op = "announce" /\ LastDecision) =>
        /\ 1 <= LastDelta
        /\ LastDelta <= built.hook.cfg.MaxIncreaseDelta

\* a modified announce that added the largest delta of the largest bound
C3_LargestDelta ==
    /\ last.op = "announce"
    /\ LastDecision
    /\ built.hook.cfg.MaxIncreaseDelta = MaxDelta
    /\ LastDelta = MaxDelta

\* C4: the response is modified exactly when ModifyResponseProbability == 1 or
\* p < ModifyResponseProbability (strict), p = v / 2^24 with v in [0, 2^24) the
\* first draw; with probability 1 every announce is modified, and otherwise
\* Interval and MinInterval are left as they were.
C4_ModifiedIffDecision ==
    last.op = "announce" =>
        /\ 0 <= LastFirstDraw.v /\ LastFirstDraw.v < ProbRange
        /\ last.after # last.before <=> LastDecision
        /\ F32EqOne(built.hook.cfg.ModifyResponseProbability) => LastDelta >= 1
        /\ ~LastDecision => last.after = last.before

\* p equals the configured probability exactly, and the response is untouched
C4_AtThreshold ==
    /\ last.op = "announce"
    /\ built.hook.cfg.ModifyResponseProbability.kind = "num"
    /\ LastFirstDraw.v * ProbDen = built.hook.cfg.ModifyResponseProbability.num * ProbRange
    /\ last.after = last.before

\* C5: on a modified announce with ModifyMinInterval set, MinInterval grows by
\* the same delta as Interval, so Interval - MinInterval is kept; with it unset
\* HandleAnnounce never changes MinInterval.
C5_MinIntervalCoupling ==
    last.op = "announce" =>
        /\ (LastDecision /\ built.hook.cfg.ModifyMinInterval) =>
            /\ LastMinDelta = LastDelta
            /\ last.after.Interval - last.after.MinInterval
                = last.before.Interval - last.before.MinInterval
        /\ ~built.hook.cfg.ModifyMinInterval =>
            last.after.MinInterval = last.before.MinInterval

\* a modified announce that left MinInterval alone while Interval moved by 2 or more
C5_OnlyIntervalMoved ==
    /\ last.op = "announce"
    /\ LastDecision
    /\ ~built.hook.cfg.ModifyMinInterval
    /\ LastDelta >= 2
    /\ LastMinDelta = 0

\* C6: an announce for the request of the first announce on the hook has the
\* same modify/no-modify outcome and the same delta as that first evaluation,
\* whatever was handled in between and whatever the response held.
C6_Determinism ==
    (first.set /\ last.op = "announce" /\ last.req = first.req) =>
        /\ LastDelta = first.dInterval
        /\ LastMinDelta = first.dMinInterval

\* the first request evaluated again on another response, and modified
C6_Replayed ==
    /\ first.set
    /\ last.op = "announce"
    /\ last.req = first.req
    /\ last.before # first.before
    /\ LastDelta >= 2

\* C7: HandleScrape and HandleApi leave the response and the request as given.
C7_Inert ==
    last.op \in {"scrape", "api"} =>
        /\ last.after = last.before
        /\ last.reqAfter = last.req

\* a scrape whose response carried files
C7_ScrapeWithFiles ==
    /\ last.op = "scrape"
    /\ last.before.files # <<>>
    /\ built.hook.cfg.ModifyMinInterval

\* C8: HandleAnnounce (both branches), HandleScrape and HandleApi return a nil
\* error and the context they were given; the only errors of the component are
\* the two returned by New.
C8_NoHandlerError ==
    /\ last.op # "none" => last.err = "nil" /\ last.ctxOut = last.ctxIn
    /\ built.err \in Errors

\* an announce on ctxB that took the non-modifying branch
C8_UnmodifiedAnnounce ==
    /\ last.op = "announce"
    /\ ~LastDecision
    /\ last.ctxIn = "ctxB"

\* a call that has entered HandleAnnounce and not yet returned
InFlight(c) == calls[c].pc \notin {"idle", "done"}

\* C9: under every interleaving each finished call holds the response it
\* produces when run alone, the hook is as New built it (configuration and
\* mutex untouched), and a call in flight can always take its next step.
C9_Independent ==
    /\ \A c \in CallIds :
        /\ (calls[c].pc = "done" /\ calls[c].op = "announce") =>
            LET r == HandleAnnounce(built.hook, calls[c].ctx, calls[c].req, calls[c].resp0)
            IN  /\ calls[c].resp = r.resp
                /\ calls[c].retErr = r.err
                /\ calls[c].retCtx = r.ctx
        /\ (calls[c].pc = "done" /\ calls[c].op \in {"scrape", "api"}) =>
            calls[c].resp = calls[c].resp0
        /\ InFlight(c) => ENABLED AnnounceStep(c)
    /\ built.hook = New(built.cfg).hook
    /\ built.hook.mu = "unlocked"

\* one call finished with a modified response while the other, for another
\* request and with another delta, is between its two additions
C9_Overlapping ==
    \E c, d \in CallIds :
        /\ c # d
        /\ calls[c].pc = "done"
        /\ calls[c].op = "announce"
        /\ calls[c].resp # calls[c].resp0
        /\ calls[d].pc = "addMinInterval"
        /\ calls[d].req # calls[c].req
        /\ calls[d].addSeconds # calls[c].addSeconds

\* the delta HandleAnnounce applies for the last request when the probability is 1
DeltaWhenUnconditional ==
    LET h == [built.hook EXCEPT !.cfg.ModifyResponseProbability = F32(ProbDen)]
    IN  HandleAnnounce(h, last.ctxIn, last.req, last.before).resp.Interval
            - last.before.Interval

\* C10: the delta is drawn from the seed pair the probability draw returned,
\* also when ModifyResponseProbability == 1, so a modified announce gets the
\* delta it gets under probability 1.
C10_SequentialDraws ==
    (last.op = "announce" /\ LastDecision) =>
        /\ LastDelta
            = Intn(LastFirstDraw.s0, LastFirstDraw.s1, built.hook.cfg.MaxIncreaseDelta).v + 1
        /\ LastDelta = DeltaWhenUnconditional

\* a modified announce, probability below 1, where the freshly derived pair
\* would have given another delta
C10_FreshPairDiffers ==
    /\ last.op = "announce"
    /\ LastDecision
    /\ ~F32EqOne(built.hook.cfg.ModifyResponseProbability)
    /\ LET e == DeriveEntropyFromRequest(last.req)
       IN  Intn(e.s0, e.s1, built.hook.cfg.MaxIncreaseDelta).v + 1 # LastDelta

====
